---- MODULE Spec2Model ----
(***************************************************************************)
(* chirpchirp.py: data over audio with chirp modulation.                   *)
(*                                                                         *)
(* The model covers the Fibonacci bit codec (F, encode, decode, tobits,    *)
(* tobyte), the transmit loop (readbytes, tobits, mod, stream.write), the  *)
(* demodulator callback dem with its decision rule, the shared queue, and  *)
(* the receive loop of __main__ that assembles bits into bytes.            *)
(*                                                                         *)
(* Three specifications:                                                   *)
(*   SpecCodec  encode and decode applied to every byte value;             *)
(*   Spec       the receiver alone, dem called with arbitrary scores;      *)
(*   SpecLink   a transmitter feeding the receiver, the channel losing at  *)
(*              most one block to an ambiguous decision.                   *)
(***************************************************************************)
EXTENDS Integers, Sequences, FiniteSets, TLC

VARIABLES
    cx,       \* codec: the value given to encode
    cbits,    \* codec: the list encode returned
    cw,       \* codec: the value decode returned
    cpc,      \* codec: "idle" | "start" | "encoded" | "decoded"
    sent,     \* tx: the bytes readbytes has yielded so far
    txq,      \* tx: the bits of the current byte tobits has yet to yield
    ends,     \* history: for each byte sent, the number of bits yielded up to its last
    air,      \* the frames written and not yet captured (at most one block)
    lostAt,   \* link: index in the transmitted bit stream of the lost bit, 0 = none
    q,        \* rx: the queue.Queue shared by dem and the receive loop
    blocks,   \* rx: number of times the audio thread has called dem
    ret,      \* rx: the flag dem returned last
    active,   \* rx: stream.is_active()
    pc,       \* rx loop: "head" | "get" | "append" | "done"
    bit,      \* rx loop: the local bit
    bits,     \* rx loop: the local bits
    out,      \* rx loop: the values written to sys.stdout
    pushed,   \* history: every bit dem has put, in order
    taken,    \* history: every bit get_nowait has returned, in order
    words     \* history: the lists given to tobyte, in order

codecVars == <<cx, cbits, cw, cpc>>
txVars    == <<sent, txq, ends>>
linkVars  == <<air, lostAt>>
demVars   == <<q, blocks, ret, pushed>>
loopVars  == <<pc, bit, bits, out, taken, words>>
vars == <<cx, cbits, cw, cpc, sent, txq, ends, air, lostAt, q, blocks, ret, active,
          pc, bit, bits, out, pushed, taken, words>>

----------------------------------------------------------------------------
(* Bounds of the model *)

MaxByte == 255      \* SpecCodec: encode is applied to 0..MaxByte
MaxScore == 3       \* Spec: the scores k0, k1 range over 0..MaxScore and NaN
MaxBlocks == 6      \* Spec: number of blocks the audio thread delivers
MaxBytes == 3       \* SpecLink: number of bytes the transmitter reads
MaxQueue == 1       \* SpecLink: the transmitter waits while the queue holds this many bits

\* SpecLink: the byte values the transmitter's input is drawn from
TxBytes == {0, 1, 4, 21}

----------------------------------------------------------------------------
(* Sequences *)

Reverse(s) == [i \in 1..Len(s) |-> s[Len(s) + 1 - i]]

Last2(s) == IF Len(s) >= 2 THEN SubSeq(s, Len(s) - 1, Len(s)) ELSE s

ButLast(s) == IF Len(s) = 0 THEN s ELSE SubSeq(s, 1, Len(s) - 1)

IsPrefix(s, t) == Len(s) <= Len(t) /\ SubSeq(t, 1, Len(s)) = s

RECURSIVE Flatten(_)
Flatten(ss) == IF ss = <<>> THEN <<>> ELSE Head(ss) \o Flatten(Tail(ss))

----------------------------------------------------------------------------
(* The bit codec *)

RECURSIVE F(_)
F(n) == IF n = 0 THEN 0
        ELSE IF n = 1 THEN 1
        ELSE F(n - 1) + F(n - 2)

\* the while loop of encode: n grows from its argument while F(n) <= x
RECURSIVE encodeN_strict(_, _)
encodeN_strict(x, n) == IF F(n) < x THEN encodeN_strict(x, n + 1) ELSE n

RECURSIVE encodeN(_, _)
encodeN(x, n) == IF F(n) <= x THEN encodeN(x, n + 1) ELSE n

\* the for loop of encode, i from n - 1 down to 2: the digits b and the remainder r
RECURSIVE encodeLoop(_, _, _)
encodeLoop(i, r, b) ==
    IF i <= 1 THEN [b |-> b, r |-> r]
    ELSE IF F(i) <= r
         THEN encodeLoop(i - 1, r - F(i), Append(b, 1))
         ELSE encodeLoop(i - 1, r, Append(b, 0))

encodeRun(x) == encodeLoop(encodeN(x, 1) - 1, x, <<>>)

encode_unreversed(x) == encodeRun(x).b \o <<1>>

encode(x) == Reverse(encodeRun(x).b) \o <<1>>

\* the loop of decode over enumerate(x[:-1]); i is the 0-based position
RECURSIVE decodeLoop(_, _, _)
decodeLoop(y, i, w) ==
    IF i >= Len(y) THEN w
    ELSE decodeLoop(y, i + 1, w + F(i + 2) * y[i + 1])

decode_whole(x) == decodeLoop(x, 0, 0)

decode(x) == decodeLoop(ButLast(x), 0, 0)

RECURSIVE tobits(_)
tobits(bytes) == IF bytes = <<>> THEN <<>>
                 ELSE encode(Head(bytes)) \o tobits(Tail(bytes))

tobyte(bs) == decode(bs)

----------------------------------------------------------------------------
(* SpecCodec: encode, then decode, of one value *)

InitCodecIdle == cx = 0 /\ cbits = <<>> /\ cw = 0 /\ cpc = "idle"

Encode ==
    /\ cpc = "start"
    /\ cbits' = encode(cx)
    /\ cpc' = "encoded"
    /\ UNCHANGED <<cx, cw>>
    /\ UNCHANGED <<txVars, linkVars, demVars, loopVars, active>>

Decode ==
    /\ cpc = "encoded"
    /\ cw' = decode(cbits)
    /\ cpc' = "decoded"
    /\ UNCHANGED <<cx, cbits>>
    /\ UNCHANGED <<txVars, linkVars, demVars, loopVars, active>>

----------------------------------------------------------------------------
(* The receiver: dem on the audio thread, the queue, the loop of __main__ *)

\* numpy yields nan for a block whose correlation has zero deviation (0.0 / 0.0);
\* every comparison with nan is False
NaN == -1

Scores == (0..MaxScore) \cup {NaN}

\* a > 2 * b as dem evaluates it
Exceeds_orEqual(a, b) == a # NaN /\ b # NaN /\ a >= 2 * b

Exceeds(a, b) == a # NaN /\ b # NaN /\ a > 2 * b

\* queue.Queue(): maxsize 0, no items
NewQueue_one == [maxsize |-> 1, queue |-> <<>>]

NewQueue == [maxsize |-> 0, queue |-> <<>>]

\* Queue.put blocks while the queue is full; a queue of maxsize <= 0 never is
full(qq) == qq.maxsize > 0 /\ Len(qq.queue) >= qq.maxsize

put(qq, item) == [qq EXCEPT !.queue = Append(@, item)]

\* Queue.get_nowait on a queue that is not empty: the item and the items left
popItem_last(items) == [item |-> items[Len(items)], rest |-> ButLast(items)]

popItem(items) == [item |-> Head(items), rest |-> Tail(items)]

\* the queue after dem's two tests
demFirst(k0, k1) == IF Exceeds(k0, k1) THEN put(q, 0) ELSE q

demSecond(k0, k1) ==
    IF Exceeds(k1, k0) THEN put(demFirst(k0, k1), 1) ELSE demFirst(k0, k1)

\* neither put of this call waits
demFree(k0, k1) ==
    /\ Exceeds(k0, k1) => ~full(q)
    /\ Exceeds(k1, k0) => ~full(demFirst(k0, k1))

\* one call of dem with scores k0, k1
dem(k0, k1) ==
    /\ demFree(k0, k1)
    /\ q' = demSecond(k0, k1)
    /\ pushed' = pushed \o SubSeq(demSecond(k0, k1).queue,
                                  Len(q.queue) + 1, Len(demSecond(k0, k1).queue))
    /\ blocks' = blocks + 1
    /\ ret' = "paContinue"
    /\ UNCHANGED active
    /\ UNCHANGED loopVars

\* the test of the receive loop: bits[-2:] == [1, 1]
Complete_last(bs) == bs # <<>> /\ bs[Len(bs)] = 1

Complete(bs) == Last2(bs) = <<1, 1>>

InitRx ==
    /\ q = NewQueue
    /\ blocks = 0
    /\ ret = "none"
    /\ active = TRUE
    /\ pc = "head"
    /\ bit = 0
    /\ bits = <<>>
    /\ out = <<>>
    /\ pushed = <<>>
    /\ taken = <<>>
    /\ words = <<>>

InitTx == sent = <<>> /\ txq = <<>> /\ ends = <<>> /\ air = <<>> /\ lostAt = 0

\* the audio thread calls dem on a captured block
Dem ==
    /\ active
    /\ blocks < MaxBlocks
    /\ \E k0 \in Scores, k1 \in Scores : dem(k0, k1)
    /\ UNCHANGED <<codecVars, txVars, linkVars>>

\* the stream stops being active
StreamStop ==
    /\ active
    /\ active' = FALSE
    /\ UNCHANGED <<codecVars, txVars, linkVars, demVars, loopVars>>

\* while stream.is_active():
LoopHead ==
    /\ pc = "head"
    /\ pc' = IF active THEN "get" ELSE "done"
    /\ UNCHANGED <<bit, bits, out, taken, words>>
    /\ UNCHANGED <<codecVars, txVars, linkVars, demVars, active>>

\* bit = q.get_nowait(), or continue on queue.Empty
LoopGet ==
    /\ pc = "get"
    /\ IF q.queue = <<>>
       THEN /\ pc' = "head"
            /\ UNCHANGED <<q, bit, taken>>
       ELSE /\ bit' = popItem(q.queue).item
            /\ q' = [q EXCEPT !.queue = popItem(q.queue).rest]
            /\ taken' = Append(taken, popItem(q.queue).item)
            /\ pc' = "append"
    /\ UNCHANGED <<bits, out, words>>
    /\ UNCHANGED <<codecVars, txVars, linkVars, blocks, ret, pushed, active>>

\* bits.append(bit); if bits[-2:] == [1, 1]: write tobyte(bits); bits = []
LoopAppend ==
    /\ pc = "append"
    /\ IF Complete(Append(bits, bit))
       THEN /\ out' = Append(out, tobyte(Append(bits, bit)))
            /\ words' = Append(words, Append(bits, bit))
            /\ bits' = <<>>
       ELSE /\ bits' = Append(bits, bit)
            /\ UNCHANGED <<out, words>>
    /\ pc' = "head"
    /\ UNCHANGED <<bit, taken>>
    /\ UNCHANGED <<codecVars, txVars, linkVars, demVars, active>>

----------------------------------------------------------------------------
(* The transmitter and the channel *)

\* mod: the waveform of a bit
mod_flipped(b) == IF b = 0 THEN "one" ELSE "zero"

mod(b) == IF b = 1 THEN "one" ELSE "zero"

\* number of bits in the codewords of the first j bytes sent
cum(j) == IF j = 0 THEN 0 ELSE ends[j]

\* readbytes yields a byte and tobits encodes it
TxRead ==
    /\ txq = <<>>
    /\ Len(sent) < MaxBytes
    /\ \E v \in TxBytes :
         /\ sent' = Append(sent, v)
         /\ txq' = encode(v)
         /\ ends' = Append(ends, cum(Len(ends)) + Len(encode(v)))
    /\ UNCHANGED <<codecVars, linkVars, demVars, loopVars, active>>

\* frames = mod(zero, one, bit); stream.write(frames)
TxWrite ==
    /\ txq # <<>>
    /\ air = <<>>
    /\ Len(q.queue) < MaxQueue
    /\ air' = <<mod(Head(txq))>>
    /\ txq' = Tail(txq)
    /\ UNCHANGED <<sent, ends, lostAt>>
    /\ UNCHANGED <<codecVars, demVars, loopVars, active>>

\* the scores of a block that carries waveform w: the waveform that was sent
\* dominates
hearsClean(w, k0, k1) == IF w = "zero" THEN Exceeds(k0, k1) ELSE Exceeds(k1, k0)

\* a block too noisy for either reference to dominate
hearsNoise(k0, k1) == ~Exceeds(k0, k1) /\ ~Exceeds(k1, k0)

\* the audio thread calls dem on the block in the air; the channel makes at
\* most one block ambiguous
Capture ==
    /\ active
    /\ air # <<>>
    /\ \E k0 \in Scores, k1 \in Scores :
         /\ IF hearsClean(Head(air), k0, k1)
            THEN lostAt' = lostAt
            ELSE /\ hearsNoise(k0, k1)
                 /\ lostAt = 0
                 /\ lostAt' = blocks + 1
         /\ dem(k0, k1)
    /\ air' = <<>>
    /\ UNCHANGED <<codecVars, txVars>>

----------------------------------------------------------------------------
(* Specifications *)

InitCodec ==
    /\ cx \in 0..MaxByte
    /\ cbits = <<>>
    /\ cw = 0
    /\ cpc = "start"
    /\ InitTx
    /\ InitRx

NextCodec == Encode \/ Decode

SpecCodec == InitCodec /\ [][NextCodec]_vars

Init == InitCodecIdle /\ InitTx /\ InitRx

Next == Dem \/ StreamStop \/ LoopHead \/ LoopGet \/ LoopAppend

Spec == Init /\ [][Next]_vars

NextLink == TxRead \/ TxWrite \/ Capture \/ LoopHead \/ LoopGet \/ LoopAppend

SpecLink == Init /\ [][NextLink]_vars

----------------------------------------------------------------------------
(* Properties of the codec, checked under SpecCodec *)

\* C1: for every byte value v, decode(encode(v)) = v.
C1_RoundTrip == cpc = "decoded" => cw = cx

C1_Witness == cpc = "decoded" /\ cx = 255 /\ Len(cbits) = 13 /\ cw = 255

\* C2: encode(v) holds two adjacent 1 bits nowhere but in its final two
\* positions, and its final bit is the terminator 1.
C2_NoEarlyPair ==
    cpc \in {"encoded", "decoded"} =>
        /\ cbits # <<>>
        /\ cbits[Len(cbits)] = 1
        /\ \A i \in 1..(Len(cbits) - 1) :
             (cbits[i] = 1 /\ cbits[i + 1] = 1) => i + 1 = Len(cbits)

C2_Witness == cpc = "encoded" /\ cx = 4 /\ cbits = <<1, 0, 1, 1>>

\* the Fibonacci numbers by iteration
RECURSIVE FibonacciFrom(_, _, _)
FibonacciFrom(k, a, b) == IF k = 0 THEN a ELSE FibonacciFrom(k - 1, b, a + b)

Fibonacci(n) == FibonacciFrom(n, 0, 1)

\* the value of digits d, position i (from 0) carrying Fibonacci(i + 2)
RECURSIVE ZeckValue(_)
ZeckValue(d) ==
    IF d = <<>> THEN 0
    ELSE ZeckValue(ButLast(d)) + d[Len(d)] * Fibonacci(Len(d) + 1)

\* d is the Zeckendorf representation of v: binary digits, no two adjacent
\* 1s, the highest digit 1, none for 0
IsZeckendorf(d, v) ==
    /\ \A i \in 1..Len(d) : d[i] \in {0, 1}
    /\ \A i \in 1..(Len(d) - 1) : ~(d[i] = 1 /\ d[i + 1] = 1)
    /\ ZeckValue(d) = v
    /\ IF v = 0 THEN d = <<>> ELSE d # <<>> /\ d[Len(d)] = 1

\* the smallest index n with Fibonacci(n) > v
MinIndex(v) ==
    CHOOSE n \in 0..20 :
        Fibonacci(n) > v /\ \A m \in 0..(n - 1) : Fibonacci(m) <= v

C4_Shape ==
    /\ cbits # <<>>
    /\ cbits[Len(cbits)] = 1
    /\ IsZeckendorf(ButLast(cbits), cx)
    /\ encodeRun(cx).r = 0
    /\ cx = 0 => cbits = <<1>>
    /\ cx = 1 => cbits = <<1, 1>>
    /\ cx = 2 => cbits = <<0, 1, 1>>
    /\ decode(<<0, 1, 1>>) = 2

\* C4 as claimed: encode(v) is the Zeckendorf digits of v in increasing index
\* order followed by the terminator 1, its length n - 1 for n the smallest
\* index with Fibonacci(n) > v, the greedy remainder 0; encode(0) = [1],
\* encode(1) = [1,1], encode(2) = [0,1,1], decode([0,1,1]) = 2.
C4_Original ==
    cpc = "encoded" => C4_Shape /\ Len(cbits) = MinIndex(cx) - 1

\* C4 amended: the same, the length being n - 1 for v >= 1 and 1 for v = 0.
C4_Amended ==
    cpc = "encoded" =>
        C4_Shape /\ Len(cbits) = (IF cx = 0 THEN 1 ELSE MinIndex(cx) - 1)

C4_Witness ==
    cpc = "encoded" /\ cx = 0 /\ cbits = <<1>> /\ MinIndex(cx) = 1

----------------------------------------------------------------------------
(* Properties of the receiver, checked under Spec *)

\* C5: a call of dem with non-negative scores k0, k1 puts at most one bit:
\* 0 exactly when k0 > 2 k1, 1 exactly when k1 > 2 k0, nothing otherwise;
\* it returns paContinue and leaves the stream active.
C5_Decision ==
    [][\A k0 \in 0..MaxScore, k1 \in 0..MaxScore :
         dem(k0, k1) =>
            /\ Len(pushed') <= Len(pushed) + 1
            /\ (pushed' = Append(pushed, 0)) <=> (k0 > 2 * k1)
            /\ (pushed' = Append(pushed, 1)) <=> (k1 > 2 * k0)
            /\ (~(k0 > 2 * k1) /\ ~(k1 > 2 * k0)) => (pushed' = pushed /\ q' = q)
            /\ q'.queue = q.queue \o SubSeq(pushed', Len(pushed) + 1, Len(pushed'))
            /\ ret' = "paContinue"
            /\ active' = active]_vars

C5_Witness == blocks = 3 /\ pushed = <<0, 1>> /\ ret = "paContinue" /\ active

\* C6: in every reachable state, whatever the queue holds and whatever the
\* receive loop does, a call of dem with any scores is enabled: its put
\* does not wait.
C6_NeverBlocks ==
    \A k0 \in Scores, k1 \in Scores : demFree(k0, k1) /\ ENABLED dem(k0, k1)

C6_Witness ==
    /\ Len(q.queue) = MaxBlocks
    /\ taken = <<>>
    /\ pc = "head"
    /\ active

NoAdjacentOnes(bs) == \A i \in 1..(Len(bs) - 1) : ~(bs[i] = 1 /\ bs[i + 1] = 1)

\* C7: a byte is written only in the step that appends a bit making the last
\* two bits of bits both 1, and bits is emptied in that step; at every loop
\* head bits holds no two adjacent 1s and is exactly the bits dequeued since
\* the last byte written.
C7_Assembler ==
    /\ [](pc = "head" =>
            /\ NoAdjacentOnes(bits)
            /\ bits = SubSeq(taken, Len(Flatten(words)) + 1, Len(taken)))
    /\ [][out' # out =>
            /\ pc = "append"
            /\ Last2(Append(bits, bit)) = <<1, 1>>
            /\ out' = Append(out, decode(Append(bits, bit)))
            /\ bits' = <<>>]_vars

C7_Witness ==
    pc = "head" /\ Len(out) = 2 /\ bits = <<0, 1>> /\ Len(taken) = MaxBlocks

\* C8: the bits appended so far (the codewords already decoded, then bits)
\* are a prefix of the bits dem has put; with the bit in hand and the queue
\* they are exactly the bits put: none duplicated, reordered or skipped.
C8_Fifo ==
    /\ IsPrefix(Flatten(words) \o bits, pushed)
    /\ pushed = Flatten(words) \o bits
                  \o (IF pc = "append" THEN <<bit>> ELSE <<>>) \o q.queue

C8_Witness ==
    /\ words # <<>>
    /\ bits # <<>>
    /\ pc = "append"
    /\ Len(q.queue) >= 2
    /\ q.queue[1] # q.queue[2]

----------------------------------------------------------------------------
(* Properties of the link, checked under SpecLink *)

\* the receiver has nothing left to do with what was transmitted
Quiet ==
    /\ txq = <<>>
    /\ air = <<>>
    /\ q.queue = <<>>
    /\ pc \in {"head", "get"}

\* C3: when the bits of tobits(sent) have all been delivered in order, none
\* lost, the receive loop has written exactly the bytes sent.
C3_EightBitClean == (lostAt = 0 /\ Quiet) => out = sent

\* C9: every value the receive loop writes is in 0..255.
C9_EmitsBytes == \A i \in 1..Len(out) : out[i] \in 0..255

\* the codeword that lost its bit
lostIn == CHOOSE k \in 1..Len(sent) : cum(k - 1) < lostAt /\ lostAt <= cum(k)

\* number of bits the receive loop has appended
appended == Len(Flatten(words)) + Len(bits)

AllPositive == \A i \in 1..Len(sent) : sent[i] \in 1..255

\* the byte just written is sent[j], decoded from exactly its codeword
WroteByte(j) ==
    /\ out # <<>>
    /\ out[Len(out)] = sent[j]
    /\ words[Len(words)] = encode(sent[j])

\* some codeword after the damaged one, up to j, encodes a value other than 1
Resync(j) == \E m \in (lostIn + 1)..j : sent[m] # 1

\* C10 as claimed: with bytes in 1..255 and one bit lost, at the end of every
\* codeword after the damaged one bits is empty, and from the second one on
\* the byte written there is the byte sent.
C10_Original ==
    (lostAt > 0 /\ AllPositive) =>
        \A j \in (lostIn + 1)..Len(sent) :
            appended = cum(j) - 1 =>
                /\ bits = <<>>
                /\ j >= lostIn + 2 => WroteByte(j)

\* C10 amended: the same from the end of the first codeword after the damaged
\* one that encodes a value other than 1.
C10_Amended ==
    (lostAt > 0 /\ AllPositive) =>
        \A j \in (lostIn + 1)..Len(sent) :
            (appended = cum(j) - 1 /\ Resync(j)) =>
                /\ bits = <<>>
                /\ Resync(j - 1) => WroteByte(j)

C10_Witness ==
    /\ lostAt = 2
    /\ sent = <<4, 1, 21>>
    /\ lostIn = 1
    /\ appended = cum(3) - 1
    /\ bits = <<>>
    /\ out = <<1, 1, 35>>

====
